---- MODULE Spec2Model ----
(***************************************************************************)
(* Model of src/write.rs of bvh_anim: WriteOptions and its line producer.  *)
(*                                                                         *)
(* Byte strings (BString) are TLA+ strings: push is \o, len is Len and     *)
(* clear yields "".  A Bvh is the read-only skeleton + motion model the    *)
(* writer is handed; the sink is recorded as the log of the calls made on  *)
(* it together with what each call returned.                               *)
(***************************************************************************)
EXTENDS Integers, Sequences, FiniteSets, TLC

\* Bounds of the explored inputs.
MaxJoints == 3
MaxFrames == 2
MaxSpaces == 3
MaxPulls == 3

VARIABLES
    bvh,                 \* the model being written (read-only)
    opts,                \* the WriteOptions value (self)
    api,                 \* which entry point runs: "none", "write", "write_to_string", "pull"
    pc,                  \* position inside the running entry point
    curr_line,           \* the reused line buffer
    iter_state,          \* WriteOptionsIterState
    out_string,          \* write_to_string's accumulator
    curr_bytes_written,  \* write's count of bytes the sink accepted
    curr_string_len,     \* write's count of bytes produced
    sink,                \* log of the calls made on the writer
    result,              \* what write returned: "none", "Ok", "ErrWrite", "ErrDropped", "ErrFlush"
    produced,            \* history: the lines for which next_line returned true
    pulls,               \* history: number of next_line calls
    last_ret,            \* history: what the latest next_line call returned
    exhausted,           \* history: some next_line call has returned false
    line_before,         \* history: the line buffer handed to the latest next_line call
    call                 \* history: the latest builder call, its arguments and receiver

vars == <<bvh, opts, api, pc, curr_line, iter_state, out_string,
          curr_bytes_written, curr_string_len, sink, result,
          produced, pulls, last_ret, exhausted, line_before, call>>

----------------------------------------------------------------------------
(* IndentStyle and LineTerminator *)

NoIndentation == [kind |-> "NoIndentation", n |-> 0]
Tabs == [kind |-> "Tabs", n |-> 0]
Spaces(n) == [kind |-> "Spaces", n |-> n]

\* Spaces holds a NonZeroUsize.
IndentStyle == {NoIndentation, Tabs} \cup {Spaces(n) : n \in 1..MaxSpaces}

LineTerminator == {"Unix", "Windows"}

WriteOptions == [indent : IndentStyle, line_terminator : LineTerminator]

RECURSIVE Repeat(_, _)
\* iter::repeat(c).take(n), collected.
Repeat(c, n) == IF n <= 0 THEN "" ELSE c \o Repeat(c, n - 1)

prefix_chars(self) ==
    \* the NUL byte of the first arm is taken zero times; "?" stands for it
    CASE self.kind = "NoIndentation" -> Repeat("?", 0)
      [] self.kind = "Tabs" -> Repeat("\t", 1)
      [] self.kind = "Spaces" -> Repeat(" ", self.n)

as_str(self) ==
    CASE self = "Unix" -> "\n"
      [] self = "Windows" -> "\r\n"

\* NonZeroUsize::new(n): None for 0, Some(n) otherwise
NonZeroUsize_new(n) ==
    IF n = 0 THEN [some |-> FALSE, v |-> 0] ELSE [some |-> TRUE, v |-> n]

\* a constructor that wraps n without the zero test
with_spaces_unchecked(n) == Spaces(n)

\* NonZeroUsize::new(n).map(Spaces).unwrap_or(NoIndentation)
with_spaces(n) ==
    LET nz == NonZeroUsize_new(n) IN
    IF nz.some THEN Spaces(nz.v) ELSE NoIndentation

\* IndentStyle::default() and LineTerminator::native() off Windows
DefaultOptions == [indent |-> Tabs, line_terminator |-> "Unix"]

\* a builder that fills the other field from Default instead of self
with_indent_from_default(self, indent) ==
    [indent |-> indent, line_terminator |-> DefaultOptions.line_terminator]

\* WriteOptions { indent, ..self }
with_indent(self, indent) ==
    [indent |-> indent, line_terminator |-> self.line_terminator]

\* WriteOptions { line_terminator, ..self }
with_line_terminator(self, line_terminator) ==
    [indent |-> self.indent, line_terminator |-> line_terminator]

NoCall ==
    [op |-> "none", style |-> Tabs, lt |-> "Unix", n |-> 0,
     receiver |-> DefaultOptions]

----------------------------------------------------------------------------
(* The Bvh handed to the writer: joints in pre-order with their depth, and *)
(* the frames.  Numbers are kept as their decimal text.                    *)

RootChannels == <<"Xposition", "Yposition", "Zposition",
                  "Zrotation", "Xrotation", "Yrotation">>
JointChannels == <<"Zrotation", "Xrotation", "Yrotation">>

JointName(i) == CASE i = 1 -> "Hips" [] i = 2 -> "Spine" [] i = 3 -> "Head"
                  [] OTHER -> "Bone"

\* depth sequences of a single-rooted pre-order: first 0, then 1..previous+1
ValidDepths(ds) ==
    /\ Len(ds) >= 1
    /\ ds[1] = 0
    /\ \A i \in 2..Len(ds) : ds[i] >= 1 /\ ds[i] <= ds[i - 1] + 1

IsLeaf(ds, i) == i = Len(ds) \/ ds[i + 1] <= ds[i]

\* End Sites are leaves below the root and carry no channels
ValidEnds(ds, es) ==
    \A i \in 1..Len(ds) : es[i] => (i > 1 /\ IsLeaf(ds, i))

MkJoint(ds, es, i) ==
    [name |-> JointName(i),
     depth |-> ds[i],
     is_end_site |-> es[i],
     offset |-> <<"0", "0", "0">>,
     channels |-> IF es[i] THEN <<>>
                  ELSE IF i = 1 THEN RootChannels ELSE JointChannels]

Skeletons ==
    UNION {
      { [i \in 1..n |-> MkJoint(ds, es, i)] :
          <<ds, es>> \in { p \in [1..n -> 0..(n - 1)] \X [1..n -> BOOLEAN] :
                              ValidDepths(p[1]) /\ ValidEnds(p[1], p[2]) } }
      : n \in 1..MaxJoints }

RECURSIVE ChannelTotal(_, _)
ChannelTotal(joints, i) ==
    IF i > Len(joints) THEN 0
    ELSE Len(joints[i].channels) + ChannelTotal(joints, i + 1)

MkFrames(joints, count) ==
    [k \in 1..count |-> [c \in 1..ChannelTotal(joints, 1) |-> "0"]]

Bvhs ==
    { [joints |-> js, frames |-> MkFrames(js, fc), frame_time |-> "0.033333"] :
        js \in Skeletons, fc \in 0..MaxFrames }

HipsBvh ==
    [joints |-> << [name |-> "Hips", depth |-> 0, is_end_site |-> FALSE,
                    offset |-> <<"0", "0", "0">>, channels |-> RootChannels] >>,
     frames |-> << <<"0", "0", "0", "0", "0", "0">> >>,
     frame_time |-> "0.033333"]

----------------------------------------------------------------------------
(* The line producer *)

NoIterState == [phase |-> "None", cursor |-> 0]

WriteOptionsIterState_new(b) == [phase |-> "WriteBones", cursor |-> 0]

\* a producer that moves its cursor on although it reports no line
next_line_advancing(self, b, line, st) ==
    [ret |-> FALSE, line |-> "", iter_state |-> [st EXCEPT !.cursor = @ + 1]]

\* a producer that leaves the caller's buffer as it found it
next_line_keeping_line(self, b, line, st) ==
    [ret |-> FALSE, line |-> line, iter_state |-> st]

\* a producer that yields a line on every call
next_line_endless(self, b, line, st) ==
    [ret |-> TRUE, line |-> "HIERARCHY" \o as_str(self.line_terminator),
     iter_state |-> st]

\* line.clear(); false
next_line(self, b, line, st) ==
    [ret |-> FALSE, line |-> "", iter_state |-> st]

----------------------------------------------------------------------------
(* State after construction: a model and an options value exist, no entry  *)
(* point has been called yet.                                              *)

Init ==
    /\ bvh \in Bvhs
    /\ opts \in WriteOptions
    /\ api = "none"
    /\ pc = "idle"
    /\ curr_line = ""
    /\ iter_state = NoIterState
    /\ out_string = ""
    /\ curr_bytes_written = 0
    /\ curr_string_len = 0
    /\ sink = <<>>
    /\ result = "none"
    /\ produced = <<>>
    /\ pulls = 0
    /\ last_ret = TRUE
    /\ exhausted = FALSE
    /\ line_before = ""
    /\ call = NoCall

\* the bookkeeping every call of next_line carries in the history variables
Pulled(r) ==
    /\ line_before' = curr_line
    /\ curr_line' = r.line
    /\ iter_state' = r.iter_state
    /\ pulls' = pulls + 1
    /\ last_ret' = r.ret
    /\ exhausted' = (exhausted \/ ~r.ret)
    /\ produced' = IF r.ret THEN Append(produced, r.line) ELSE produced

----------------------------------------------------------------------------
(* WriteOptions::write *)

\* what Write::write may return for a buffer: Ok(n) with n <= len, or Err
SinkWriteReturns(bytes) ==
    {[ok |-> TRUE, n |-> n] : n \in 0..Len(bytes)} \cup {[ok |-> FALSE, n |-> 0]}

\* the locals of write before its loop
write_enter ==
    /\ pc = "idle"
    /\ api' = "write"
    /\ curr_line' = ""
    /\ curr_bytes_written' = 0
    /\ curr_string_len' = 0
    /\ iter_state' = WriteOptionsIterState_new(bvh)
    /\ pc' = "write_loop"
    /\ UNCHANGED <<bvh, call, line_before, opts, out_string, sink, result, produced, pulls,
                   last_ret, exhausted>>

\* one evaluation of the while condition and, when it holds, the loop body
write_loop ==
    /\ pc = "write_loop"
    /\ pulls < MaxPulls
    /\ LET r == next_line(opts, bvh, curr_line, iter_state) IN
       /\ Pulled(r)
       /\ IF r.ret
          THEN \E w \in SinkWriteReturns(r.line) :
                 /\ sink' = Append(sink, [op |-> "write", bytes |-> r.line,
                                          ok |-> w.ok, n |-> w.n])
                 /\ curr_string_len' = curr_string_len + Len(r.line)
                 /\ IF ~w.ok
                    THEN \* the ? operator returns the sink's error
                         /\ curr_bytes_written' = curr_bytes_written
                         /\ result' = "ErrWrite"
                         /\ pc' = "done"
                    ELSE /\ curr_bytes_written' = curr_bytes_written + w.n
                         /\ IF curr_bytes_written' # curr_string_len'
                            THEN result' = "ErrDropped" /\ pc' = "done"
                            ELSE result' = result /\ pc' = "write_loop"
          ELSE /\ pc' = "write_flush"
               /\ UNCHANGED <<sink, curr_string_len, curr_bytes_written, result>>
    /\ UNCHANGED <<bvh, call, opts, api, out_string>>

\* write returning Ok(()) without the final flush
write_flush_omitted ==
    /\ pc = "write_flush"
    /\ result' = "Ok"
    /\ pc' = "done"
    /\ UNCHANGED <<bvh, call, line_before, opts, api, curr_line, iter_state, out_string,
                   curr_bytes_written, curr_string_len, sink, produced, pulls,
                   last_ret, exhausted>>

\* writer.flush(), whose result is write's result
write_flush ==
    /\ pc = "write_flush"
    /\ \E ok \in BOOLEAN :
         /\ sink' = Append(sink, [op |-> "flush", bytes |-> "", ok |-> ok, n |-> 0])
         /\ result' = IF ok THEN "Ok" ELSE "ErrFlush"
    /\ pc' = "done"
    /\ UNCHANGED <<bvh, call, line_before, opts, api, curr_line, iter_state, out_string,
                   curr_bytes_written, curr_string_len, produced, pulls,
                   last_ret, exhausted>>

----------------------------------------------------------------------------
(* WriteOptions::write_to_string *)

write_to_string_enter ==
    /\ pc = "idle"
    /\ api' = "write_to_string"
    /\ curr_line' = ""
    /\ out_string' = ""
    /\ iter_state' = WriteOptionsIterState_new(bvh)
    /\ pc' = "string_loop"
    /\ UNCHANGED <<bvh, call, line_before, opts, curr_bytes_written, curr_string_len, sink,
                   result, produced, pulls, last_ret, exhausted>>

\* one evaluation of the while condition and the push, or the return
write_to_string_loop ==
    /\ pc = "string_loop"
    /\ pulls < MaxPulls
    /\ LET r == next_line(opts, bvh, curr_line, iter_state) IN
       /\ Pulled(r)
       /\ IF r.ret
          THEN out_string' = out_string \o r.line /\ pc' = "string_loop"
          ELSE out_string' = out_string /\ pc' = "done"
    /\ UNCHANGED <<bvh, call, opts, api, curr_bytes_written, curr_string_len,
                   sink, result>>

Next ==
    \/ write_enter
    \/ write_loop
    \/ write_flush
    \/ write_to_string_enter
    \/ write_to_string_loop

Spec == Init /\ [][Next]_vars

\* a called function runs on: each loop test and the flush are taken once
\* they are reached (the sink's calls return)
SpecFair ==
    /\ Spec
    /\ WF_vars(write_loop)
    /\ WF_vars(write_flush)
    /\ WF_vars(write_to_string_loop)

----------------------------------------------------------------------------
(* next_line applied repeatedly to one iterator state and one line buffer, *)
(* also after it has reported that no line is left.                        *)

InitPulls ==
    /\ bvh \in Bvhs
    /\ opts \in WriteOptions
    /\ api = "pull"
    /\ pc = "pulling"
    /\ curr_line \in {"", "stale\n"}
    /\ iter_state = WriteOptionsIterState_new(bvh)
    /\ out_string = ""
    /\ curr_bytes_written = 0
    /\ curr_string_len = 0
    /\ sink = <<>>
    /\ result = "none"
    /\ produced = <<>>
    /\ pulls = 0
    /\ last_ret = TRUE
    /\ exhausted = FALSE
    /\ line_before = ""
    /\ call = NoCall

pull ==
    /\ pc = "pulling"
    /\ pulls < MaxPulls
    /\ Pulled(next_line(opts, bvh, curr_line, iter_state))
    /\ UNCHANGED <<bvh, call, opts, api, pc, out_string, curr_bytes_written,
                   curr_string_len, sink, result>>

NextPulls == pull

SpecPulls == InitPulls /\ [][NextPulls]_vars

\* the two entry points and the bare producer side by side
InitAll == Init \/ InitPulls

NextAll == Next \/ NextPulls

SpecAll == InitAll /\ [][NextAll]_vars

----------------------------------------------------------------------------
(* The builders applied to options values, in any order and any number of  *)
(* times; call records the latest application.                             *)

InitBuilders ==
    /\ bvh = HipsBvh
    /\ opts \in WriteOptions
    /\ api = "builder"
    /\ pc = "building"
    /\ curr_line = ""
    /\ iter_state = NoIterState
    /\ out_string = ""
    /\ curr_bytes_written = 0
    /\ curr_string_len = 0
    /\ sink = <<>>
    /\ result = "none"
    /\ produced = <<>>
    /\ pulls = 0
    /\ last_ret = TRUE
    /\ exhausted = FALSE
    /\ line_before = ""
    /\ call = NoCall

BuilderFrame ==
    UNCHANGED <<bvh, api, pc, curr_line, iter_state, out_string,
                curr_bytes_written, curr_string_len, sink, result, produced,
                pulls, last_ret, exhausted, line_before>>

\* opts = opts.with_indent(style)
call_with_indent ==
    /\ pc = "building"
    /\ \E style \in IndentStyle :
         /\ opts' = with_indent(opts, style)
         /\ call' = [op |-> "with_indent", style |-> style, lt |-> "Unix",
                     n |-> 0, receiver |-> opts]
    /\ BuilderFrame

\* opts = opts.with_line_terminator(t)
call_with_line_terminator ==
    /\ pc = "building"
    /\ \E t \in LineTerminator :
         /\ opts' = with_line_terminator(opts, t)
         /\ call' = [op |-> "with_line_terminator", style |-> Tabs, lt |-> t,
                     n |-> 0, receiver |-> opts]
    /\ BuilderFrame

\* opts = opts.with_indent(IndentStyle::with_spaces(n))
call_with_spaces ==
    /\ pc = "building"
    /\ \E n \in 0..MaxSpaces :
         /\ opts' = with_indent(opts, with_spaces(n))
         /\ call' = [op |-> "with_spaces", style |-> with_spaces(n), lt |-> "Unix",
                     n |-> n, receiver |-> opts]
    /\ BuilderFrame

NextBuilders ==
    \/ call_with_indent
    \/ call_with_line_terminator
    \/ call_with_spaces

SpecBuilders == InitBuilders /\ [][NextBuilders]_vars

----------------------------------------------------------------------------
(* The documents and lines the claims speak of *)

OptsOf(i, t) == [indent |-> i, line_terminator |-> t]

Done(a) == pc = "done" /\ api = a

\* a joint's header text, without indentation and terminator
HeaderText(j) ==
    IF j.depth = 0 THEN "ROOT " \o j.name
    ELSE IF j.is_end_site THEN "End Site"
    ELSE "JOINT " \o j.name

MotionLine == "MOTION" \o as_str(opts.line_terminator)

RECURSIVE BlockLines(_, _)
\* sum over the joints from i on of: open brace, OFFSET, CHANNELS unless an
\* End Site, close brace
BlockLines(joints, i) ==
    IF i > Len(joints) THEN 0
    ELSE (IF joints[i].is_end_site THEN 3 ELSE 4) + BlockLines(joints, i + 1)

HipsTextTabsUnix ==
    "HIERARCHY\n" \o
    "ROOT Hips\n" \o
    "{\n" \o
    "\tOFFSET 0 0 0\n" \o
    "\tCHANNELS 6 Xposition Yposition Zposition Zrotation Xrotation Yrotation\n" \o
    "}\n" \o
    "MOTION\n" \o
    "Frames: 1\n" \o
    "Frame Time: 0.033333\n" \o
    "0 0 0 0 0 0\n"

HipsTextSpaces2Unix ==
    "HIERARCHY\n" \o
    "ROOT Hips\n" \o
    "  {\n" \o
    "    OFFSET 0 0 0\n" \o
    "    CHANNELS 6 Xposition Yposition Zposition Zrotation Xrotation Yrotation\n" \o
    "  }\n" \o
    "MOTION\n" \o
    "Frames: 1\n" \o
    "Frame Time: 0.033333\n" \o
    "0 0 0 0 0 0\n"

----------------------------------------------------------------------------
(* The BVH text of a model as the paired parser reads it: the line layout  *)
(* of the output format, braces aligned with the header of their block.    *)

Digit(d) ==
    CASE d = 0 -> "0" [] d = 1 -> "1" [] d = 2 -> "2" [] d = 3 -> "3"
      [] d = 4 -> "4" [] d = 5 -> "5" [] d = 6 -> "6" [] d = 7 -> "7"
      [] d = 8 -> "8" [] d = 9 -> "9"

RECURSIVE Decimal(_)
Decimal(n) == IF n < 10 THEN Digit(n) ELSE Decimal(n \div 10) \o Digit(n % 10)

RECURSIVE JoinFrom(_, _)
\* the tokens from index i on, each preceded by one space
JoinFrom(tokens, i) ==
    IF i > Len(tokens) THEN "" ELSE " " \o tokens[i] \o JoinFrom(tokens, i + 1)

\* tokens separated by single spaces
Join(tokens) == IF Len(tokens) = 0 THEN "" ELSE tokens[1] \o JoinFrom(tokens, 2)

IndentAt(o, d) == Repeat(prefix_chars(o.indent), d)

TextLine(o, d, text) == IndentAt(o, d) \o text \o as_str(o.line_terminator)

NextDepth(m, i) == IF i >= Len(m.joints) THEN 0 ELSE m.joints[i + 1].depth

\* header, open brace, OFFSET and, unless an End Site, CHANNELS
JointLines(m, o, i) ==
    LET j == m.joints[i] IN
    << TextLine(o, j.depth, HeaderText(j)),
       TextLine(o, j.depth, "{"),
       TextLine(o, j.depth + 1, "OFFSET" \o JoinFrom(j.offset, 1)) >>
    \o (IF j.is_end_site THEN <<>>
        ELSE << TextLine(o, j.depth + 1,
                   "CHANNELS " \o Decimal(Len(j.channels)) \o JoinFrom(j.channels, 1)) >>)

\* the close braces of the blocks that end after joint i, innermost first
CloseLines(m, o, i) ==
    LET d == m.joints[i].depth
        nd == NextDepth(m, i)
        last == IF i >= Len(m.joints) THEN 0 ELSE nd IN
    IF i < Len(m.joints) /\ nd > d THEN <<>>
    ELSE [c \in 1..(d - last + 1) |-> TextLine(o, d - c + 1, "}")]

RECURSIVE BoneLines(_, _, _)
BoneLines(m, o, i) ==
    IF i > Len(m.joints) THEN <<>>
    ELSE JointLines(m, o, i) \o CloseLines(m, o, i) \o BoneLines(m, o, i + 1)

FrameLine(m, o, k) == TextLine(o, 0, Join(m.frames[k]))

MotionLines(m, o) ==
    << TextLine(o, 0, "MOTION"),
       TextLine(o, 0, "Frames: " \o Decimal(Len(m.frames))),
       TextLine(o, 0, "Frame Time: " \o m.frame_time) >>
    \o [k \in 1..Len(m.frames) |-> FrameLine(m, o, k)]

DocumentLines(m, o) ==
    <<TextLine(o, 0, "HIERARCHY")>> \o BoneLines(m, o, 1) \o MotionLines(m, o)

RECURSIVE Concat(_, _)
Concat(lines, i) == IF i > Len(lines) THEN "" ELSE lines[i] \o Concat(lines, i + 1)

Document(m, o) == Concat(DocumentLines(m, o), 1)

\* the parser reads text as model m when the text is m's document under
\* some indentation and line terminator
Parses(text, m) ==
    \E i \in IndentStyle, t \in LineTerminator : text = Document(m, OptsOf(i, t))

\* the layout agrees with the two documents given in full
LayoutAgrees ==
    /\ Document(HipsBvh, OptsOf(Tabs, "Unix")) = HipsTextTabsUnix
    /\ Parses(HipsTextTabsUnix, HipsBvh)

----------------------------------------------------------------------------
(* Claims *)

\* C1: writing the single-root Hips model (one frame of six zeros, frame
\* time 0.033333) with Tabs and Unix, write_to_string returns exactly the
\* ten lines HIERARCHY .. 0 0 0 0 0 0, each ended by \n.
C1_HipsTabsUnixDocument ==
    (Done("write_to_string") /\ bvh = HipsBvh /\ opts = OptsOf(Tabs, "Unix"))
        => out_string = HipsTextTabsUnix

\* C3: in the drained document the MOTION line is preceded by
\* 1 + 1 + sum over joints (open brace + OFFSET + CHANNELS unless End Site +
\* close brace) lines, and the lines from MOTION on number 3 + frame_count.
C3_LineCounts ==
    Done("write_to_string") =>
        \E k \in 1..Len(produced) :
            /\ produced[k] = MotionLine
            /\ \A h \in 1..(k - 1) : produced[h] # MotionLine
            /\ k - 1 = 1 + 1 + BlockLines(bvh.joints, 1)
            /\ Len(produced) - (k - 1) = 3 + Len(bvh.frames)

\* C4: once a pull has reported "no more lines", every later pull reports
\* it again, leaves phase and cursor as they were and leaves the line
\* buffer empty.
C4_IdempotentExhaustion ==
    [][exhausted =>
          (last_ret' = FALSE /\ iter_state' = iter_state /\ curr_line' = "")]_vars

\* C4 witness: a pull has been made after the producer reported exhaustion.
C4_PulledAfterExhaustion ==
    api = "pull" /\ exhausted /\ pulls >= 2 /\ last_ret = FALSE

AllAccepted ==
    \A i \in 1..Len(sink) :
        sink[i].op = "write" => (sink[i].ok /\ sink[i].n = Len(sink[i].bytes))

WriteCalls == SelectSeq(sink, LAMBDA c : c.op = "write")

\* C6: while the sink accepts every line in full, write makes one sink
\* write call per produced line, in production order; flush is called
\* exactly once, after the last line and never before it; write returns
\* what that flush returned.
C6_WritePerLineThenOneFlush ==
    (api = "write" /\ AllAccepted) =>
        /\ [i \in 1..Len(WriteCalls) |-> WriteCalls[i].bytes] = produced
        /\ \A i \in 1..Len(sink) :
              sink[i].op = "flush" =>
                  (i = Len(sink) /\ i = Len(produced) + 1 /\ exhausted /\ pc = "done")
        /\ pc = "done" =>
              /\ Len(sink) = Len(produced) + 1
              /\ sink[Len(sink)].op = "flush"
              /\ result = IF sink[Len(sink)].ok THEN "Ok" ELSE "ErrFlush"
        /\ pc # "done" => result = "none"

\* C6 witness: write has returned after a sink that refused nothing, with
\* the error of its single flush.
C6_ReturnedFlushError ==
    /\ Done("write") /\ AllAccepted
    /\ Len(sink) = 1 /\ sink[1].op = "flush" /\ ~sink[1].ok
    /\ result = "ErrFlush"

\* C7: with frame_count = 0 the drained document ends with the three lines
\* MOTION, Frames: 0, Frame Time: <frame_time>, and no frame line follows.
C7_ZeroFramesPreamble ==
    (Done("write_to_string") /\ Len(bvh.frames) = 0) =>
        LET n == Len(produced)
            t == as_str(opts.line_terminator) IN
        /\ n >= 3
        /\ produced[n - 2] = MotionLine
        /\ produced[n - 1] = "Frames: 0" \o t
        /\ produced[n] = "Frame Time: " \o bvh.frame_time \o t

\* C8: writing the Hips model with Spaces(2) and Unix returns the Tabs text
\* with the OFFSET and CHANNELS lines prefixed by 4 spaces and the brace
\* lines prefixed by 2 spaces.
C8_HipsSpaces2Document ==
    (Done("write_to_string") /\ bvh = HipsBvh /\ opts = OptsOf(Spaces(2), "Unix"))
        => out_string = HipsTextSpaces2Unix

\* C9: every joint at depth d has a header line (ROOT / JOINT / End Site)
\* in the drained document that is d repetitions of the indentation unit
\* followed directly by the keyword.
C9_HeaderIndentation ==
    Done("write_to_string") =>
        \A i \in 1..Len(bvh.joints) :
            \E k \in 1..Len(produced) :
                produced[k] =
                    Repeat(prefix_chars(opts.indent), bvh.joints[i].depth)
                        \o HeaderText(bvh.joints[i])
                        \o as_str(opts.line_terminator)

\* C11: with_indent(style) yields options with indent = style and the
\* receiver's line_terminator; with_line_terminator(t) yields options with
\* line_terminator = t and the receiver's indent; the two builders commute
\* and the later of two calls of the same builder wins.
C11_BuildersSetOneField ==
    /\ call.op = "with_indent" =>
          /\ opts.indent = call.style
          /\ opts.line_terminator = call.receiver.line_terminator
    /\ call.op = "with_line_terminator" =>
          /\ opts.line_terminator = call.lt
          /\ opts.indent = call.receiver.indent
    /\ \A i1 \in IndentStyle, i2 \in IndentStyle,
          t1 \in LineTerminator, t2 \in LineTerminator :
          /\ with_indent(with_line_terminator(opts, t1), i1)
                = with_line_terminator(with_indent(opts, i1), t1)
          /\ with_indent(with_indent(opts, i1), i2) = with_indent(opts, i2)
          /\ with_line_terminator(with_line_terminator(opts, t1), t2)
                = with_line_terminator(opts, t2)

\* C11 witness: with_indent has been applied to a receiver whose indent
\* and line terminator both differ from the defaults and from the argument.
C11_IndentReplacedOnWindowsOptions ==
    /\ call.op = "with_indent"
    /\ call.receiver = OptsOf(Spaces(2), "Windows")
    /\ call.style = NoIndentation
    /\ opts = OptsOf(NoIndentation, "Windows")

\* C12: with_spaces(0) is NoIndentation and with_spaces(n), n >= 1, is
\* Spaces(n); no value built by with_spaces is Spaces of width zero, and its
\* indentation unit is exactly n space characters.
C12_WithSpacesNormalizesZero ==
    call.op = "with_spaces" =>
        /\ call.n = 0 => call.style = NoIndentation
        /\ call.n >= 1 => call.style = Spaces(call.n)
        /\ ~(call.style.kind = "Spaces" /\ call.style.n = 0)
        /\ prefix_chars(call.style) = Repeat(" ", call.n)
        /\ Len(prefix_chars(call.style)) = call.n
        /\ opts.indent = call.style

\* C12 witness: with_spaces(0) has been called and gave NoIndentation.
C12_ZeroSpacesBuilt ==
    call.op = "with_spaces" /\ call.n = 0 /\ opts.indent = NoIndentation

\* C13: parsing the text returned by write_to_string gives back the model
\* that was written, for every indentation style and line terminator.
C13_RoundTrip ==
    Done("write_to_string") => Parses(out_string, bvh)

\* C14: the producer starts in WriteBones at cursor 0; HIERARCHY is the
\* first line and occurs once; MOTION, Frames: and Frame Time: occur once,
\* in that order, after the joints and before the frame lines; the drained
\* producer is in WriteMotion.
C14_PhaseOrdering ==
    /\ (pc \in {"write_loop", "string_loop"} /\ pulls = 0) =>
          iter_state = [phase |-> "WriteBones", cursor |-> 0]
    /\ Done("write_to_string") =>
          LET n == Len(produced)
              f == Len(bvh.frames)
              only(text) == Cardinality({k \in 1..n : produced[k] = TextLine(opts, 0, text)}) = 1
          IN
          /\ n >= 4 + f
          /\ produced[1] = TextLine(opts, 0, "HIERARCHY")
          /\ only("HIERARCHY")
          /\ only("MOTION")
          /\ SubSeq(produced, n - f - 2, n - f) = SubSeq(MotionLines(bvh, opts), 1, 3)
          /\ iter_state.phase = "WriteMotion"
          /\ iter_state.cursor = f

\* C15: after a joint's lines, one close-brace line is produced for every
\* unit by which the next joint's depth (0 when none remains) is below the
\* joint's depth, innermost first, each at the depth of the block it closes,
\* directly before the next joint's header or the MOTION line.
C15_CloseBraceUnwinding ==
    Done("write_to_string") =>
        \A i \in 1..Len(bvh.joints) :
            LET d == bvh.joints[i].depth
                nd == NextDepth(bvh, i)
                closes == [c \in 1..(d - nd) |-> TextLine(opts, d - c + 1, "}")]
                after == IF i < Len(bvh.joints)
                         THEN TextLine(opts, nd, HeaderText(bvh.joints[i + 1]))
                         ELSE TextLine(opts, 0, "MOTION")
            IN d > nd =>
                 \E k \in 1..Len(produced) :
                     /\ k + (d - nd) <= Len(produced)
                     /\ SubSeq(produced, k, k + (d - nd)) = closes \o <<after>>

\* C16: every joint has, on consecutive pulls, its header line (ROOT name,
\* End Site or JOINT name), an open brace at its depth, OFFSET x y z at
\* depth + 1 and, unless it is an End Site, CHANNELS n names at depth + 1.
C16_JointLines ==
    Done("write_to_string") =>
        \A i \in 1..Len(bvh.joints) :
            LET want == JointLines(bvh, opts, i) IN
            \E k \in 1..Len(produced) :
                /\ k + Len(want) - 1 <= Len(produced)
                /\ SubSeq(produced, k, k + Len(want) - 1) = want

\* C17: the document ends with one line per frame, in index order, each the
\* frame's values separated by spaces without indentation, and the Frames:
\* line carries their number.
C17_FrameLines ==
    Done("write_to_string") =>
        LET n == Len(produced)
            f == Len(bvh.frames) IN
        /\ n >= f + 2
        /\ produced[n - f - 1] = TextLine(opts, 0, "Frames: " \o Decimal(f))
        /\ \A k \in 1..f : produced[n - f + k] = FrameLine(bvh, opts, k)

\* C19: the drain loops of write and write_to_string end: once a loop is
\* entered the call returns, the producer having reported "no more lines";
\* write_to_string returns its string and no error.
C19_DrainTerminates ==
    /\ (pc \in {"write_loop", "write_flush", "string_loop"}) ~> (pc = "done")
    /\ [](pc = "done" => exhausted)
    /\ [](api = "write_to_string" => result = "none")

\* C19 witness: write_to_string has returned after the producer reported
\* that no line is left.
C19_StringReturned ==
    Done("write_to_string") /\ exhausted /\ pulls >= 1 /\ result = "none"

TotalLen(lines) == Len(Concat(lines, 1))

\* C20: after any pull the line buffer holds the line of that pull, or is
\* empty when the pull reported no more lines, whatever it held before; at
\* the start of every iteration of write's loop the bytes accepted by the
\* sink equal the bytes of the lines produced so far.
C20_LineBufferAndByteCounts ==
    /\ pulls >= 1 =>
          curr_line = (IF last_ret THEN produced[Len(produced)] ELSE "")
    /\ (api = "write" /\ pc = "write_loop") =>
          /\ curr_bytes_written = TotalLen(produced)
          /\ curr_string_len = TotalLen(produced)

\* C20 witness: a pull was handed a buffer that still held an earlier line
\* and left it empty.
C20_StaleBufferCleared ==
    api = "pull" /\ pulls >= 1 /\ line_before = "stale\n" /\ curr_line = ""

====
